---- MODULE Spec2Model ----
(***************************************************************************)
(* PmdkLogger (util/pmdk_logger.h): an append-only text logger that        *)
(* writes records into a memory-mapped persistent-memory file, grows the   *)
(* mapping in 32 MiB steps and shrinks the file when it is destroyed.      *)
(*                                                                         *)
(* The file's content is kept as a set of extents.  An extent              *)
(*   [lo, hi, rec, at, len, nl]                                            *)
(* says that the bytes [lo, hi) of the file hold the bytes                 *)
(* [lo - at, hi - at) of record rec, a record of len bytes whose last byte *)
(* is a line break iff nl.  Bytes covered by no extent were never written  *)
(* by an append (holes of the sparse file, zero fill of ftruncate).        *)
(***************************************************************************)
EXTENDS Integers, Sequences, FiniteSets, TLC

\* ---- bounds of the model ------------------------------------------------
NThreads == 2
MaxAppends == 2
MaxDisposals == 2
MaxReopens == 1
MaxConcurrent == 2
MaxFmtAppends == 1
MaxMapFailures == 1
MaxMaps == 16

\* ---- program constants --------------------------------------------------
kMaxThreadIdSize == 32
kStackBufferSize == 512
kDateTimeSize == 28
kGrowth == 32 * 1024 * 1024

Threads == 1 .. NThreads

\* Length of the text operator<< prints for std::this_thread::get_id().
RawThreadIdSize(t) == IF t = 1 THEN 15 ELSE 40

\* thread_id.resize(kMaxThreadIdSize) when it is longer.
ThreadIdSize(t) ==
  IF RawThreadIdSize(t) > kMaxThreadIdSize THEN kMaxThreadIdSize
  ELSE RawThreadIdSize(t)

\* snprintf of "%04d/%02d/%02d-%02d:%02d:%02d.%06d %s ".
HeaderSize(t) == kDateTimeSize + ThreadIdSize(t)

\* Caller's messages: formatted length and number of trailing '\n' chars.
Messages ==
  { [len |-> 0, tail |-> 0],
    [len |-> 469, tail |-> 0],
    [len |-> kGrowth + 7, tail |-> 0] }

\* Messages around the limit of the stack buffer (headers are 43 and 60
\* bytes), short ones with 0, 1 and 2 trailing line breaks, and a long one.
FmtMessages ==
  { [len |-> 0, tail |-> 0],
    [len |-> 5, tail |-> 0],
    [len |-> 5, tail |-> 1],
    [len |-> 5, tail |-> 2],
    [len |-> 450, tail |-> 0],
    [len |-> 451, tail |-> 0],
    [len |-> 467, tail |-> 1],
    [len |-> 468, tail |-> 0],
    [len |-> 1000, tail |-> 0] }

\* What a faulty vsnprintf may return on the second pass for a text of M
\* chars: the right length, an error, too little or too much.
Reports(M) == { M, -1, M - 2, M + 3 }

\* Values an uninitialized size_t may hold.
Indeterminate == { 0, 1024 * 1024 * 1024 }

\* Lengths of the mapping the caller hands to the constructor.
InitLens == { 44, kGrowth + 1 }

NULL == 0

VARIABLES
  mmap_base_,   \* id of the mapping the logger points at, NULL = 0
  length_,      \* capacity the logger believes the mapping has
  now_off_,     \* logical offset
  maps,         \* mapping service: id -> [len, live]
  fsize,        \* size of the backing file
  data,         \* content of the backing file, a set of extents
  pc,           \* per thread: position inside Logv
  buf,          \* per thread: the rendered record
  offSeen,      \* per thread: now_off_ as loaded by the loop test
  offUsed,      \* per thread: now_off_ as used by pmem_memcpy
  new_size,     \* per thread: the local new_size of the growth step
  acct,         \* per thread (history): copies, releases, failed maps of the call
  startOff,     \* per thread (history): now_off_ when Logv was entered
  capAtEntry,   \* per thread (history): length_ when Logv was entered
  grows,        \* per thread (history): growth steps of this call
  calls,        \* history: mapping-service calls of the last operation
  log,          \* history: completed appends of this instance
  disposed,     \* history: the destructor has run on this instance
  existing0,    \* history: the constructor's `existing`
  ctorLen,      \* history: the constructor's `length`
  ctorOff,      \* history: now_off_ right after construction
  ctorData,     \* history: file content at construction
  lifecycle,    \* history: "fresh" while built fresh and reopened existing
  nAppends, nDisposals, nReopens,
  crashed,      \* the process died on a wild memory access
  wild          \* history: some unmap/copy went through a dead mapping

vars == << mmap_base_, length_, now_off_, maps, fsize, data, pc, buf,
           offSeen, offUsed, new_size, acct, startOff, capAtEntry, grows, calls,
           log, disposed, existing0, ctorLen, ctorOff, ctorData, lifecycle,
           nAppends, nDisposals, nReopens, crashed, wild >>

thrVars == << pc, buf, offSeen, offUsed, new_size, acct, startOff, capAtEntry, grows >>
ctorVars == << existing0, ctorLen, ctorOff, ctorData, lifecycle >>
countVars == << nAppends, nDisposals, nReopens >>

Min(a, b) == IF a < b THEN a ELSE b
Max(a, b) == IF a > b THEN a ELSE b

\* ---- file content -------------------------------------------------------
\* The extents of d with the bytes [lo, hi) removed.
Clip(d, lo, hi) ==
  { x \in d : x.hi <= lo \/ x.lo >= hi }
  \cup { [x EXCEPT !.hi = lo] : x \in { y \in d : y.lo < lo /\ y.hi > lo } }
  \cup { [x EXCEPT !.lo = hi] : x \in { y \in d : y.lo < hi /\ y.hi > hi } }

\* The extents of d below byte n (ftruncate to n; also "the bytes [0, n)").
Truncate(d, n) ==
  { x \in d : x.hi <= n }
  \cup { [x EXCEPT !.hi = n] : x \in { y \in d : y.lo < n /\ y.hi > n } }

\* Record r copied to [off, off + r.len), of which only bytes below limit land.
Write(d, off, r, limit) ==
  LET hi == Min(off + r.len, limit)
  IN IF off >= hi THEN d
     ELSE Clip(d, off, hi)
          \cup { [lo |-> off, hi |-> hi, rec |-> r.id, at |-> off,
                  len |-> r.len, nl |-> r.nl] }

Complete(x) == x.lo = x.at /\ x.hi = x.at + x.len

RECURSIVE Bytes(_)
Bytes(d) ==
  IF d = {} THEN 0
  ELSE LET x == CHOOSE y \in d : TRUE IN (x.hi - x.lo) + Bytes(d \ {x})

\* ---- mapping service (libpmem) -----------------------------------------
IsLive(m, base) == base \in DOMAIN m /\ m[base].live

\* pmem_map_file(path, len, PMEM_FILE_CREATE [| PMEM_FILE_SPARSE]) on a
\* regular file: the file is set to len bytes (extended with a hole or cut),
\* a new mapping of len bytes is made and *mapped_lenp = len.
PmemMapFile(m, len) == Append(m, [len |-> len, live |-> TRUE])

\* pmem_unmap(base, len).  On a live mapping it ends it.  On a dead one the
\* address range is either unmapped already (nothing happens) or has been
\* reused by a later mapping, which is then torn down.
PmemUnmap(m, base) ==
  IF base = NULL THEN { m }
  ELSE IF IsLive(m, base) THEN { [m EXCEPT ![base].live = FALSE] }
  ELSE { m } \cup { [m EXCEPT ![v].live = FALSE] :
                      v \in { i \in DOMAIN m : m[i].live } }

\* ---- PmdkLogger ---------------------------------------------------------
\* Variant: the reopen flag is ignored.
CtorOff_Zero(existing, length) == 0

\* now_off_(existing ? length : 0)
CtorOff(existing, length) == IF existing THEN length ELSE 0

\* Variant: the test leaves no room for the line break.
Overflows_Late(buffer_offset, buffer_size) == buffer_offset >= buffer_size

\* if (buffer_offset >= buffer_size - 1): the message did not fit.
Overflows(buffer_offset, buffer_size) == buffer_offset >= buffer_size - 1

\* Variant: the first pass is never abandoned.
Abandons_Never(iteration) == FALSE

\* if (iteration == 0) { dynamic_buffer_size = ...; continue; }
Abandons(iteration) == iteration = 0

\* Variant: room for the terminator only.
DynamicSize_One(buffer_offset) == buffer_offset + 1

\* dynamic_buffer_size = buffer_offset + 2
DynamicSize(buffer_offset) == buffer_offset + 2

\* Variant: the truncation keeps buffer_size bytes.
TruncatedOffset_Full(buffer_size) == buffer_size

\* buffer_offset = buffer_size - 1
TruncatedOffset(buffer_size) == buffer_size - 1

\* Variant: a line break is always added.
AddNewline_Always(buffer_offset, lastIsNl) == buffer_offset + 1

\* if (buffer[buffer_offset - 1] != '\n') { buffer[buffer_offset] = '\n'; ++buffer_offset; }
AddNewline(buffer_offset, lastIsNl) ==
  IF lastIsNl THEN buffer_offset ELSE buffer_offset + 1

\* Variant: the buffer is released whatever the iteration.
Released_Always(iteration) == TRUE

\* if (iteration != 0) delete[] buffer
Released(iteration) == iteration # 0

\* buffer[i] == '\n' for a buffer that holds a header of H chars (no line
\* break in it), then a message of M chars ending in exactly tail line
\* breaks, then the terminator.  Other chars of the message, and the bytes
\* of a new char[] past the terminator, are unknown: unk.
CharIsNl(i, H, M, tail, unk) ==
  IF i < H THEN FALSE
  ELSE IF i < H + M - tail - 1 THEN unk
  ELSE IF i = H + M - tail - 1 THEN FALSE
  ELSE IF i < H + M THEN TRUE
  ELSE IF i = H + M THEN FALSE
  ELSE unk

\* One run of the formatting loop body (lines 76-130) on a buffer of size
\* bytes: header of H chars, message of M chars for which vsnprintf returns
\* R.  (v)snprintf never write past the size they are given.
Pass(iteration, size, H, M, R, tail, unk) ==
  LET off == H + R
      over == Overflows(off, size)
      retry == over /\ Abandons(iteration)
      off2 == IF over THEN TruncatedOffset(size) ELSE off
      lastNl == CharIsNl(off2 - 1, H, M, tail, unk)
      final == AddNewline(off2, lastNl)
      kept == IF ~lastNl THEN 0 ELSE IF off2 = H + M THEN tail ELSE 1
  IN [ iteration |-> iteration,
       buffer_size |-> size,
       hdr |-> H, msg |-> M, tail |-> tail,
       off |-> off, reported |-> R,
       retry |-> retry,
       dyn |-> IF retry THEN DynamicSize(off) ELSE 0,
       truncated |-> over /\ ~retry,
       len |-> IF retry THEN 0 ELSE final,
       nl |-> ~retry /\ (lastNl \/ final > off2),
       added |-> IF retry THEN 0 ELSE final - off2,
       rtail |-> IF retry THEN 0 ELSE kept + (final - off2),
       maxIdx |-> Max(Min(H + M, size - 1),
                      IF ~retry /\ final > off2 THEN off2 ELSE 0),
       passes |-> iteration + 1,
       allocs |-> IF iteration = 0 THEN 0 ELSE 1 ]

\* Variant: the loop test forgets the record's length.
NeedsGrowth_NoRecord(off, buffer_offset, length) == off > length

\* Variant: the loop test uses >= instead of >.
NeedsGrowth_Geq(off, buffer_offset, length) == off + buffer_offset >= length

\* while (now_off_ + buffer_offset > length_)
NeedsGrowth(off, buffer_offset, length) == off + buffer_offset > length

\* Variant: the growth step asks for the increment alone.
GrowRequest_Fixed(length) == kGrowth

\* Variant: the growth step asks for the current capacity again.
GrowRequest_None(length) == length

\* length_ + 32*1024*1024
GrowRequest(length) == length + kGrowth

\* Variant: the shrink step asks for the logical size itself.
ShrinkRequest_Exact(off) == off

\* now_off_ + 1
ShrinkRequest(off) == off + 1

\* Variant: the offset advances by the text without its line break.
NewOff_NoNewline(off, buffer_offset) == off + buffer_offset - 1

\* now_off_ += buffer_offset
NewOff(off, buffer_offset) == off + buffer_offset

\* Variant: the destructor leaves its last mapping mapped.
LastUnmap_Missing(m, id) == m

\* The destructor's closing pmem_unmap(mmap_base_, length_) of the mapping
\* id it has just made.
LastUnmap(m, id) == [m EXCEPT ![id].live = FALSE]

NoRecord ==
  [ id |-> 0, raw |-> 0, iteration |-> 0, buffer_size |-> 0, hdr |-> 0,
    msg |-> 0, tail |-> 0, off |-> 0, reported |-> 0, retry |-> FALSE,
    dyn |-> 0, truncated |-> FALSE, len |-> 0, nl |-> FALSE, added |-> 0,
    rtail |-> 0, maxIdx |-> 0, passes |-> 0, allocs |-> 0 ]

NoAcct == [copies |-> 0, frees |-> 0, badFrees |-> 0, fails |-> 0]

AllIdle == \A t \in Threads : pc[t] = "idle"

Init ==
  \E existing \in BOOLEAN, L \in InitLens :
    /\ maps = << [len |-> L, live |-> TRUE] >>
    /\ fsize = L
    /\ data = IF existing
              THEN { [lo |-> 0, hi |-> L, rec |-> 0, at |-> 0, len |-> L, nl |-> TRUE] }
              ELSE {}
    /\ mmap_base_ = 1
    /\ length_ = L
    /\ now_off_ = CtorOff(existing, L)
    /\ pc = [t \in Threads |-> "idle"]
    /\ buf = [t \in Threads |-> NoRecord]
    /\ offSeen = [t \in Threads |-> 0]
    /\ offUsed = [t \in Threads |-> 0]
    /\ new_size = [t \in Threads |-> 0]
    /\ acct = [t \in Threads |-> NoAcct]
    /\ startOff = [t \in Threads |-> 0]
    /\ capAtEntry = [t \in Threads |-> 0]
    /\ grows = [t \in Threads |-> 0]
    /\ calls = << >>
    /\ log = << >>
    /\ disposed = FALSE
    /\ existing0 = existing
    /\ ctorLen = L
    /\ ctorOff = CtorOff(existing, L)
    /\ ctorData = data
    /\ lifecycle = IF existing THEN "other" ELSE "fresh"
    /\ nAppends = 0 /\ nDisposals = 0 /\ nReopens = 0
    /\ crashed = FALSE
    /\ wild = FALSE

\* Entry of Logv and the first run of the formatting loop, on the stack
\* buffer (lines 50-130, iteration 0): purely local work of the thread.
Enter(t, msgs) ==
  /\ ~crashed /\ ~disposed
  /\ pc[t] = "idle"
  /\ nAppends < MaxAppends
  /\ \E m \in msgs :
       LET p == Pass(0, kStackBufferSize, HeaderSize(t), m.len, m.len, m.tail, FALSE)
       IN /\ buf' = [buf EXCEPT ![t] = [id |-> nAppends + 1, raw |-> p.off] @@ p]
          /\ pc' = [pc EXCEPT ![t] = IF p.retry THEN "retry" ELSE "test"]
  /\ acct' = [acct EXCEPT ![t] = NoAcct]
  /\ startOff' = [startOff EXCEPT ![t] = now_off_]
  /\ capAtEntry' = [capAtEntry EXCEPT ![t] = length_]
  /\ grows' = [grows EXCEPT ![t] = 0]
  /\ nAppends' = nAppends + 1
  /\ calls' = << >>
  /\ UNCHANGED << mmap_base_, length_, now_off_, maps, fsize, data, offSeen,
                  offUsed, new_size, log, disposed, ctorVars, nDisposals,
                  nReopens, crashed, wild >>

\* A call made while no other call is in progress.
Logv(t) == AllIdle /\ Enter(t, Messages)

\* A call made whatever the other threads are doing.
LogvConcurrent(t) == nAppends < MaxConcurrent /\ Enter(t, Messages)

\* A sequential call with a message that exercises the formatting paths.
LogvFmt(t) == AllIdle /\ nAppends < MaxFmtAppends /\ Enter(t, FmtMessages)

\* The second run of the formatting loop, on new char[dynamic_buffer_size]
\* (iteration 1); vsnprintf returns one of the lengths in reports.
SecondPass(t, reports) ==
  /\ ~crashed
  /\ pc[t] = "retry"
  /\ \E R \in reports, unk \in BOOLEAN :
       /\ R = buf[t].msg => ~unk
       /\ LET p == Pass(1, buf[t].dyn, buf[t].hdr, buf[t].msg, R, buf[t].tail, unk)
          IN buf' = [buf EXCEPT ![t] =
                       [id |-> buf[t].id, raw |-> buf[t].raw]
                       @@ [p EXCEPT !.passes = buf[t].passes + 1]]
  /\ pc' = [pc EXCEPT ![t] = "test"]
  /\ UNCHANGED << mmap_base_, length_, now_off_, maps, fsize, data, offSeen,
                  offUsed, new_size, acct, startOff, capAtEntry, grows, calls,
                  log, disposed, ctorVars, countVars, crashed, wild >>

\* vsnprintf works: it returns the same length in both passes.
Retry(t) == SecondPass(t, { buf[t].msg })

\* vsnprintf may misreport the length on the second pass.
RetryFaulty(t) == SecondPass(t, Reports(buf[t].msg))

\* while (now_off_ + buffer_offset > length_)
Test(t) ==
  /\ ~crashed
  /\ pc[t] = "test"
  /\ offSeen' = [offSeen EXCEPT ![t] = now_off_]
  /\ pc' = [pc EXCEPT ![t] =
              IF NeedsGrowth(now_off_, buf[t].len, length_) THEN "unmap" ELSE "copy"]
  /\ UNCHANGED << mmap_base_, length_, now_off_, maps, fsize, data, buf,
                  offUsed, new_size, acct, startOff, capAtEntry, grows, calls,
                  log, disposed, ctorVars, countVars, crashed, wild >>

\* pmem_unmap(mmap_base_, length_)
GrowUnmap(t) ==
  /\ ~crashed
  /\ pc[t] = "unmap"
  /\ maps' \in PmemUnmap(maps, mmap_base_)
  /\ wild' = (wild \/ ~IsLive(maps, mmap_base_))
  /\ calls' = Append(calls, [op |-> "unmap", base |-> mmap_base_, len |-> length_])
  /\ pc' = [pc EXCEPT ![t] = "map"]
  /\ UNCHANGED << mmap_base_, length_, now_off_, fsize, data, buf, offSeen,
                  offUsed, new_size, acct, startOff, capAtEntry, grows, log,
                  disposed, ctorVars, countVars, crashed >>

\* mmap_base_ = pmem_map_file(filename_, length_ + 32 MiB, CREATE | SPARSE, .., &new_size, NULL)
GrowMap(t) ==
  /\ ~crashed
  /\ pc[t] = "map"
  /\ Len(maps) < MaxMaps
  /\ LET req == GrowRequest(length_)
     IN /\ maps' = PmemMapFile(maps, req)
        /\ fsize' = req
        /\ data' = Truncate(data, req)
        /\ mmap_base_' = Len(maps) + 1
        /\ new_size' = [new_size EXCEPT ![t] = req]
        /\ calls' = Append(calls, [op |-> "map", base |-> Len(maps) + 1, len |-> req])
  /\ pc' = [pc EXCEPT ![t] = "store"]
  /\ UNCHANGED << length_, now_off_, buf, offSeen, offUsed, acct, startOff,
                  capAtEntry, grows, log, disposed, ctorVars, countVars,
                  crashed, wild >>

\* The same call when the mapping service fails: pmem_map_file returns NULL
\* and leaves new_size, an uninitialized local, as it was.
GrowMapFail(t) ==
  /\ ~crashed
  /\ pc[t] = "map"
  /\ acct[t].fails < MaxMapFailures
  /\ mmap_base_' = NULL
  /\ \E junk \in Indeterminate : new_size' = [new_size EXCEPT ![t] = junk]
  /\ acct' = [acct EXCEPT ![t].fails = @ + 1]
  /\ calls' = Append(calls, [op |-> "map", base |-> NULL, len |-> GrowRequest(length_)])
  /\ pc' = [pc EXCEPT ![t] = "store"]
  /\ UNCHANGED << length_, now_off_, maps, fsize, data, buf, offSeen, offUsed,
                  startOff, capAtEntry, grows, log, disposed, ctorVars,
                  countVars, crashed, wild >>

\* length_ = new_size
GrowStore(t) ==
  /\ ~crashed
  /\ pc[t] = "store"
  /\ length_' = new_size[t]
  /\ grows' = [grows EXCEPT ![t] = @ + 1]
  /\ pc' = [pc EXCEPT ![t] = "test"]
  /\ UNCHANGED << mmap_base_, now_off_, maps, fsize, data, buf, offSeen,
                  offUsed, new_size, acct, startOff, capAtEntry, calls, log,
                  disposed, ctorVars, countVars, crashed, wild >>

\* pmem_memcpy(mmap_base_ + now_off_, buffer, buffer_offset, PMEM_F_MEM_NONTEMPORAL)
\* now_off_ is the value the loop test loaded or a fresh load.  A copy into a
\* live mapping within its length lands in the file.  Any other copy is a
\* wild access: the process dies, or the call goes on, and the bytes that
\* hit mapped pages of the file land (none when the base is NULL).
Copy(t) ==
  /\ ~crashed
  /\ pc[t] = "copy"
  /\ \E off \in { offSeen[t], now_off_ } :
       /\ offUsed' = [offUsed EXCEPT ![t] = off]
       /\ IF IsLive(maps, mmap_base_) /\ off + buf[t].len <= maps[mmap_base_].len
          THEN /\ data' = Write(data, off, buf[t], fsize)
               /\ pc' = [pc EXCEPT ![t] = "advance"]
               /\ acct' = [acct EXCEPT ![t].copies = @ + 1]
               /\ UNCHANGED << crashed, wild >>
          ELSE /\ wild' = TRUE
               /\ \/ /\ crashed' = TRUE
                     /\ UNCHANGED << data, pc, acct >>
                  \/ /\ data' = Write(data, off, buf[t],
                                      IF IsLive(maps, mmap_base_)
                                      THEN Min(maps[mmap_base_].len, fsize)
                                      ELSE IF mmap_base_ = NULL THEN 0
                                      ELSE fsize)
                     /\ pc' = [pc EXCEPT ![t] = "advance"]
                     /\ acct' = [acct EXCEPT ![t].copies = @ + 1]
                     /\ UNCHANGED crashed
  /\ UNCHANGED << mmap_base_, length_, now_off_, maps, fsize, buf, offSeen,
                  new_size, startOff, capAtEntry, grows, calls, log, disposed,
                  ctorVars, countVars >>

\* now_off_ += buffer_offset; if (iteration != 0) delete[] buffer; break;
\* The load of the read-modify-write is the copy's value or a fresh one.
Advance(t) ==
  /\ ~crashed
  /\ pc[t] = "advance"
  /\ acct' = [acct EXCEPT
                ![t].frees = @ + (IF Released(buf[t].iteration) THEN 1 ELSE 0),
                ![t].badFrees = @ + (IF Released(buf[t].iteration) /\ buf[t].iteration = 0
                                     THEN 1 ELSE 0)]
  /\ \E off \in { offUsed[t], now_off_ } :
       /\ now_off_' = NewOff(off, buf[t].len)
       /\ log' = Append(log, [id |-> buf[t].id, start |-> startOff[t],
                              end |-> now_off_', len |-> buf[t].len,
                              grows |-> grows[t], cap |-> capAtEntry[t],
                              b |-> buf[t], a |-> acct'[t]])
  /\ pc' = [pc EXCEPT ![t] = "idle"]
  /\ UNCHANGED << mmap_base_, length_, maps, fsize, data, buf, offSeen,
                  offUsed, new_size, startOff, capAtEntry, grows, calls,
                  disposed, ctorVars, countVars, crashed, wild >>

\* ~PmdkLogger()
Dispose ==
  /\ ~crashed
  /\ AllIdle
  /\ nDisposals < MaxDisposals
  /\ nDisposals' = nDisposals + 1
  /\ disposed' = TRUE
  /\ IF mmap_base_ # NULL
     THEN \E m1 \in PmemUnmap(maps, mmap_base_) :
            LET req == ShrinkRequest(now_off_)
                m2 == PmemMapFile(m1, req)
                id == Len(m2)
            IN /\ maps' = LastUnmap(m2, id)
               /\ fsize' = req
               /\ data' = Truncate(data, req)
               /\ mmap_base_' = id
               /\ length_' = req
               /\ wild' = (wild \/ ~IsLive(maps, mmap_base_))
               /\ calls' = << [op |-> "unmap", base |-> mmap_base_, len |-> length_],
                              [op |-> "map", base |-> id, len |-> req],
                              [op |-> "unmap", base |-> id, len |-> req] >>
     ELSE /\ calls' = << >>
          /\ UNCHANGED << maps, fsize, data, mmap_base_, length_, wild >>
  /\ UNCHANGED << now_off_, thrVars, log, ctorVars, nAppends, nReopens, crashed >>

\* The owner maps the whole file left by a disposed logger and constructs a
\* new PmdkLogger on it (lines 31-35).
Reopen ==
  /\ ~crashed
  /\ disposed
  /\ nReopens < MaxReopens
  /\ nReopens' = nReopens + 1
  /\ \E existing \in BOOLEAN :
       LET L == fsize
       IN /\ maps' = PmemMapFile(maps, L)
          /\ mmap_base_' = Len(maps) + 1
          /\ length_' = L
          /\ now_off_' = CtorOff(existing, L)
          /\ existing0' = existing
          /\ ctorLen' = L
          /\ ctorOff' = CtorOff(existing, L)
          /\ ctorData' = data
          /\ lifecycle' = IF existing THEN lifecycle ELSE "other"
  /\ disposed' = FALSE
  /\ log' = << >>
  /\ calls' = << >>
  /\ UNCHANGED << fsize, data, thrVars, nAppends, nDisposals, crashed, wild >>

\* The steps of Logv from the growth loop on.
Work(t) ==
  \/ Test(t) \/ GrowUnmap(t) \/ GrowMap(t) \/ GrowStore(t) \/ Copy(t) \/ Advance(t)

Step(t) == Retry(t) \/ Work(t)

\* Appends made one after another.
Next ==
  \/ \E t \in Threads : Logv(t)
  \/ \E t \in Threads : Step(t)
  \/ Dispose
  \/ Reopen

Spec == Init /\ [][Next]_vars

\* Appends made concurrently by the threads.
NextMT ==
  \/ \E t \in Threads : LogvConcurrent(t)
  \/ \E t \in Threads : Step(t)

SpecMT == Init /\ [][NextMT]_vars

\* Appends of messages around the formatting limits, one after another, with
\* a vsnprintf that may misreport on the second pass.
NextFmt ==
  \/ \E t \in Threads : LogvFmt(t)
  \/ \E t \in Threads : RetryFaulty(t)
  \/ \E t \in Threads : Work(t)

SpecFmt == Init /\ [][NextFmt]_vars

\* Appends made one after another with a mapping service that may fail.
NextFail ==
  \/ \E t \in Threads : Logv(t)
  \/ \E t \in Threads : Step(t)
  \/ \E t \in Threads : GrowMapFail(t)

SpecFail == Init /\ [][NextFail]_vars

\* Appends made one after another; a thread inside Logv keeps running.
NextLive ==
  \/ \E t \in Threads : Logv(t)
  \/ \E t \in Threads : Step(t)

SpecLive == Init /\ [][NextLive]_vars /\ WF_vars(\E t \in Threads : Step(t))

\* ---- properties ---------------------------------------------------------
RECURSIVE SumLen(_)
SumLen(s) == IF s = << >> THEN 0 ELSE Head(s).len + SumLen(Tail(s))

\* The record of log entry e lies whole at [lo, lo + e.len) of the file.
Holds(e, lo) ==
  \E x \in data : /\ x.rec = e.id /\ x.lo = lo /\ x.hi = lo + e.len
                  /\ x.at = lo /\ x.len = e.len

\* C1: the mapped capacity is at least the logical offset in every state:
\* after construction (fresh or existing), after every growth step inside an
\* append and after every completed append.
C1_CapacityInvariant == length_ >= now_off_

\* An append that needed two growth steps has completed.
C1_Witness ==
  /\ AllIdle /\ ~disposed
  /\ \E i \in 1 .. Len(log) : log[i].grows >= 2

\* C2: for appends made one after another, record i occupies exactly
\* [offset before call i, offset after call i), the offset after the call is
\* the offset before it plus the record's rendered length, the ranges do not
\* overlap, and the offset after N calls is the starting offset plus the sum
\* of the N lengths.
C2_SequentialAccounting ==
  /\ \A i \in 1 .. Len(log) :
       /\ log[i].start = (IF i = 1 THEN ctorOff ELSE log[i - 1].end)
       /\ log[i].end = log[i].start + log[i].len
       /\ Holds(log[i], log[i].start)
  /\ \A i, j \in 1 .. Len(log) : i < j => log[i].end <= log[j].start
  /\ AllIdle => now_off_ = ctorOff + SumLen(log)

\* Two appends or more have completed on this instance.
C2_Witness == AllIdle /\ Len(log) >= 2 /\ log[2].start > ctorOff

\* C3 (as claimed): under concurrent appends the process stays alive, and
\* once all calls have returned every record lies whole in the file and the
\* offset is the starting offset plus the sum of all records' lengths.
C3_ConcurrentAppendSafe ==
  /\ ~crashed
  /\ AllIdle =>
       /\ \A i \in 1 .. Len(log) : \E lo \in 0 .. fsize : Holds(log[i], lo)
       /\ now_off_ = ctorOff + SumLen(log)

\* C4: an append grows the mapping iff offset + record length exceeds the
\* capacity (an exact fill does not grow); after the growth loop the capacity
\* is larger than before by a whole multiple of 32 MiB and holds the record.
C4_GrowthIffNeeded ==
  \A t \in Threads :
    /\ pc[t] \in { "unmap", "map", "store" } =>
         startOff[t] + buf[t].len > capAtEntry[t]
    /\ pc[t] \in { "copy", "advance" } =>
         /\ (grows[t] > 0) <=> (startOff[t] + buf[t].len > capAtEntry[t])
         /\ grows[t] > 0 =>
              /\ length_ > capAtEntry[t]
              /\ (length_ - capAtEntry[t]) % (32 * 1024 * 1024) = 0
              /\ length_ >= startOff[t] + buf[t].len

\* One append filled the capacity exactly without growing, another grew twice.
C4_Witness ==
  /\ \E i \in 1 .. Len(log) :
       log[i].grows = 0 /\ log[i].start + log[i].len = log[i].cap
  /\ \E i \in 1 .. Len(log) : log[i].grows >= 2

\* C5: a growth step changes neither the logical offset nor any byte below
\* it, and no step of an append changes a byte below the offset at which the
\* append started.
C5_GrowthFrame ==
  [][ \A t \in Threads :
        /\ pc[t] \in { "unmap", "map", "store" } =>
             /\ now_off_' = now_off_
             /\ Truncate(data', now_off_) = Truncate(data, now_off_)
        /\ pc[t] # "idle" =>
             Truncate(data', startOff[t]) = Truncate(data, startOff[t]) ]_vars

\* A record was copied after a growth step on top of earlier content.
C5_Witness ==
  \E t \in Threads :
    /\ pc[t] = "advance" /\ grows[t] > 0 /\ startOff[t] > 0
    /\ Truncate(data, startOff[t]) # {}

\* C6: existing = true starts the offset at the mapped length L, existing =
\* false at 0 whatever L; after a construction with existing = true the bytes
\* [0, L) stay as they were and every record lands at or above L.
C6_ReopenSemantics ==
  /\ existing0 => ctorOff = ctorLen
  /\ ~existing0 => ctorOff = 0
  /\ existing0 =>
       /\ Truncate(data, ctorLen) = ctorData
       /\ \A x \in data \ ctorData : x.lo >= ctorLen

\* An instance built with existing = true grew for its first append.
C6_Witness ==
  /\ existing0 /\ ctorLen > 0 /\ AllIdle
  /\ Len(log) >= 1 /\ log[1].grows > 0 /\ log[1].start = ctorLen

\* C7 (as claimed): after disposal the backing file is exactly as long as the
\* logical offset.
C7_DisposalExactSize == disposed => fsize = now_off_

\* C8: disposal unmaps the current mapping with its capacity, remaps the file
\* asking for exactly offset + 1 bytes and unmaps that mapping; the file is
\* then at least offset + 1 bytes long, and no longer than the capacity
\* before disposal whenever that capacity exceeded the offset.
C8_DisposalProtocol ==
  [][ nDisposals' = nDisposals + 1 =>
        /\ Len(calls') = 3
        /\ calls'[1] = [op |-> "unmap", base |-> mmap_base_, len |-> length_]
        /\ calls'[2].op = "map" /\ calls'[2].len = now_off_ + 1
        /\ calls'[3] = [op |-> "unmap", base |-> calls'[2].base, len |-> length_']
        /\ ~IsLive(maps', calls'[2].base)
        /\ fsize' >= now_off_ + 1
        /\ length_ > now_off_ => fsize' <= length_ ]_vars

\* A logger with records and spare capacity has been disposed.
C8_Witness ==
  /\ disposed /\ Len(log) >= 1 /\ Len(calls) = 3
  /\ calls[1].len > now_off_ + 1 /\ fsize = now_off_ + 1

\* C9 (as claimed): disposal of an already disposed instance does nothing: no
\* unmap, no remap, the file size stays.
C9_DisposalIdempotent ==
  [][ (disposed /\ nDisposals' = nDisposals + 1) =>
        /\ calls' = << >>
        /\ maps' = maps
        /\ fsize' = fsize ]_vars

\* The first now_off_ bytes of the file are whole newline-terminated records
\* of appends, back to back.
ValidPrefix ==
  LET below == { x \in data : x.lo < now_off_ }
  IN /\ \A x \in below : x.rec # 0 /\ Complete(x) /\ x.nl /\ x.hi <= now_off_
     /\ Bytes(below) = now_off_

\* C10 (as claimed): across construct fresh, appends, disposal, reopen with
\* existing = true on the file as left, and further appends, the first
\* now_off_ bytes of the file are nothing but whole records of appends.
C10_ArtifactValid == lifecycle = "fresh" => ValidPrefix

\* A call of thread t has rendered its record with a vsnprintf that
\* returned the message's length.
Rendered(t) == buf[t].id # 0 /\ ~buf[t].retry /\ buf[t].reported = buf[t].msg

\* C11: a message whose formatted length L (header + body) is at most
\* 512 - 2 is finished in the first pass on the stack buffer and allocates
\* nothing; one with L >= 512 - 1 takes the dynamic-buffer path.
C11_StackThreshold ==
  \A t \in Threads :
    buf[t].id # 0 =>
      /\ buf[t].raw <= 512 - 2 =>
           /\ pc[t] # "retry"
           /\ buf[t].iteration = 0 /\ buf[t].passes = 1 /\ buf[t].allocs = 0
      /\ buf[t].raw >= 512 - 1 =>
           \/ pc[t] = "retry"
           \/ buf[t].iteration = 1 /\ buf[t].allocs = 1

\* A message of L = 511, which fills the stack buffer, went the dynamic way.
C11_Witness ==
  \E i \in 1 .. Len(log) :
    log[i].b.raw = 511 /\ log[i].b.iteration = 1 /\ log[i].b.allocs = 1

\* C12: a message that does not fit the stack buffer is formatted once more,
\* into a buffer of exactly L + 2 bytes; when vsnprintf returns the same
\* length in both passes the second pass fits (nothing is truncated), the
\* record is the whole header and message, and it ends in a line break.
C12_TwoPassSizing ==
  \A t \in Threads :
    /\ pc[t] = "retry" => buf[t].dyn = buf[t].raw + 2 /\ buf[t].passes = 1
    /\ (Rendered(t) /\ buf[t].iteration = 1) =>
         /\ buf[t].passes = 2
         /\ buf[t].buffer_size = buf[t].raw + 2
         /\ ~buf[t].truncated
         /\ buf[t].len = buf[t].raw + (IF buf[t].tail > 0 THEN 0 ELSE 1)
         /\ buf[t].nl

\* A message of 1000 chars was written through the dynamic buffer.
C12_Witness ==
  \E i \in 1 .. Len(log) :
    /\ log[i].b.msg = 1000 /\ log[i].b.iteration = 1
    /\ log[i].b.reported = 1000 /\ Holds(log[i], log[i].start)

\* C13 (as claimed): every record ends in exactly one line break.
C13_ExactlyOneLineBreak ==
  \A t \in Threads : Rendered(t) => buf[t].rtail = 1

\* C13 (amended): every record ends in a line break; Logv adds one, and the
\* record is L + 1 bytes, when the message is empty or does not end in a
\* line break; it adds none, and the record is L bytes, when the message
\* ends in one; a message ending in several line breaks keeps them all.
C13_TrailingLineBreak ==
  \A t \in Threads :
    Rendered(t) =>
      /\ buf[t].nl
      /\ buf[t].added = (IF buf[t].tail = 0 THEN 1 ELSE 0)
      /\ buf[t].len = buf[t].raw + (IF buf[t].tail = 0 THEN 1 ELSE 0)
      /\ buf[t].rtail = (IF buf[t].tail = 0 THEN 1 ELSE buf[t].tail)

\* A message ending in two line breaks has been copied.
C13_Witness ==
  \E i \in 1 .. Len(log) :
    log[i].b.tail = 2 /\ log[i].b.rtail = 2 /\ log[i].len = log[i].b.raw

\* C14: with a mapping service that returns at least what is asked, every
\* call that reaches the growth loop leaves it with room for the record and
\* returns with the record copied and the offset advanced.
C14_GrowthTerminates ==
  \A t \in Threads : \A k \in 1 .. MaxAppends :
    (pc[t] = "test" /\ buf[t].id = k)
      ~> (/\ pc[t] = "idle"
          /\ \E i \in 1 .. Len(log) :
               /\ log[i].id = k
               /\ log[i].end = log[i].start + log[i].len
               /\ Holds(log[i], log[i].start)
               /\ length_ >= log[i].end)

\* A call that went through the growth loop twice has returned.
C14_Witness ==
  /\ AllIdle /\ Len(maps) >= 3
  /\ \E i \in 1 .. Len(log) : log[i].grows >= 2 /\ Holds(log[i], log[i].start)

\* C15: a call that returns has copied once and advanced the offset once,
\* by the record it rendered in its last pass; an abandoned first pass
\* copies nothing, grows nothing and leaves the offset alone.
C15_OneRecordPerCall ==
  [][ \A t \in Threads :
        /\ (pc[t] \in { "idle", "retry" } /\ pc'[t] # pc[t]) =>
             /\ data' = data /\ now_off_' = now_off_ /\ maps' = maps
             /\ length_' = length_ /\ mmap_base_' = mmap_base_
             /\ acct'[t].copies = 0 /\ grows'[t] = 0
        /\ (pc[t] = "idle" /\ pc'[t] = "test") => buf'[t].raw < 512 - 1
        /\ (pc[t] # "idle" /\ pc'[t] = "idle") =>
             /\ acct'[t].copies = 1
             /\ now_off_' = now_off_ + buf[t].len
             /\ buf[t].passes = (IF buf[t].raw >= 512 - 1 THEN 2 ELSE 1)
        /\ (\A u \in Threads : pc[u] # "advance") => now_off_' = now_off_
        /\ (\A u \in Threads : pc[u] # "copy") => data' = data ]_vars

\* A call whose first pass was abandoned has returned.
C15_Witness ==
  \E i \in 1 .. Len(log) : log[i].b.passes = 2 /\ log[i].a.copies = 1

\* C16 (as claimed): once pmem_map_file has failed inside a call, that call
\* does not get to pmem_memcpy, does not advance the offset and does not
\* return as if the record had been written.
C16_GrowthFailureFatal ==
  \A t \in Threads :
    acct[t].fails > 0 =>
      /\ acct[t].copies = 0
      /\ pc[t] \notin { "advance", "idle" }
      /\ now_off_ = startOff[t]

\* C17 (as claimed): under concurrent appends no pmem_memcpy goes through a
\* dead mapping or past its capacity, and no pmem_unmap hits a mapping that
\* is already unmapped.
C17_CopyLiveInBounds == ~wild

LiveMaps == { i \in DOMAIN maps : maps[i].live }

\* C18: in single-threaded use the logger holds exactly one live mapping,
\* the one mmap_base_ points at with length_ as its capacity, between
\* operations until disposal and none afterwards; each unmap hits the live
\* mapping with its capacity, each remap follows the unmap of the previous
\* mapping, and up to the disposal nothing is unmapped twice.
C18_MappingLifecycle ==
  /\ [] /\ (AllIdle /\ ~disposed) =>
             LiveMaps = { mmap_base_ } /\ maps[mmap_base_].len = length_
        /\ disposed => LiveMaps = {}
        /\ \A t \in Threads :
             /\ pc[t] = "unmap" =>
                  LiveMaps = { mmap_base_ } /\ maps[mmap_base_].len = length_
             /\ pc[t] = "map" => LiveMaps = {}
             /\ pc[t] \in { "store", "retry", "test", "copy", "advance" } =>
                  LiveMaps = { mmap_base_ }
  /\ [][ ~disposed => wild' = wild ]_vars

\* A logger that grew its mapping has been disposed once.
C18_Witness ==
  /\ disposed /\ nDisposals = 1 /\ ~wild /\ Len(maps) >= 4
  /\ \E i \in 1 .. Len(log) : log[i].grows > 0

\* C19: on every path, also when vsnprintf misreports on the second pass
\* and the record is cut to buffer_size - 1, every write to the staging
\* buffer is at an index in [0, buffer_size) and at most buffer_size bytes
\* are copied into the region.
C19_StagingBounds ==
  \A t \in Threads :
    buf[t].id # 0 =>
      /\ buf[t].maxIdx >= 0
      /\ buf[t].maxIdx < buf[t].buffer_size
      /\ buf[t].len <= buf[t].buffer_size

\* A record cut on the second pass, filling the whole buffer, was copied.
C19_Witness ==
  \E i \in 1 .. Len(log) :
    log[i].b.truncated /\ log[i].len = log[i].b.buffer_size /\ log[i].a.copies = 1

\* C20: a call allocates at most one dynamic buffer; when it returns it has
\* released that buffer exactly once (also on the truncation path), and it
\* never releases the stack buffer.
C20_BufferRelease ==
  /\ \A t \in Threads :
       /\ buf[t].allocs <= 1
       /\ pc[t] # "idle" => acct[t].frees = 0
  /\ \A i \in 1 .. Len(log) :
       /\ log[i].a.frees = log[i].b.allocs
       /\ log[i].a.badFrees = 0
       /\ log[i].b.iteration = 0 => log[i].a.frees = 0

\* A call on the truncation path has returned with its buffer released.
C20_Witness ==
  \E i \in 1 .. Len(log) :
    log[i].b.truncated /\ log[i].b.allocs = 1 /\ log[i].a.frees = 1

====
